---- MODULE Spec2Model ----
(***************************************************************************)
(* A model of main.py: the credential store (users table, signup, login),  *)
(* the per-session Streamlit state, the three outbound HTTP clients        *)
(* (air quality, geocoding, routing) and the saved_routes.json journal.    *)
(*                                                                         *)
(* Every Streamlit interaction re-runs main() for one session; one action  *)
(* of the model is one such script run.  The only run that is split into   *)
(* several steps is "Save Route", whose file read, file truncation and     *)
(* file write are separate system calls that other sessions' runs can      *)
(* interleave with.                                                        *)
(***************************************************************************)
EXTENDS Integers, Sequences, FiniteSets, TLC

\* ------------------------------------------------------------------ bounds
NumSessions == 2
MaxUser == 2
MaxPw == 3
MaxRoutes == 2

Sessions == 1..NumSessions
Usernames == 1..MaxUser
Passwords == 1..MaxPw

\* Outcome of one database round trip (engine.connect() + execute + commit):
\* it completes, or the driver raises (server down, connection lost, ...).
DbOutcomes == {"ok", "error"}

\* Python's None, and a present value, as sequences of length 0 and 1.
None == <<>>
Some(x) == <<x>>

VARIABLES
    table_exists,   \* the users table has been created
    users,          \* rows of the users table: [id, username, password]
    logged_in,      \* st.session_state.logged_in per session (FALSE: key absent)
    username,       \* st.session_state.username per session (None: key absent)
    pc,             \* position of each session's Save Route handler
    saved_data,     \* Save Route's local saved_data, per session (None outside the handler)
    saved_routes,   \* Save Route's local saved_routes, per session (empty outside the handler)
    file,           \* saved_routes.json
    out,            \* what the latest script run did: call, result, messages
    signed_up,      \* history: the (username, password) pairs whose signup returned True
    appended        \* history: the summaries whose Save Route completed, in order

vars == <<table_exists, users, logged_in, username, pc, saved_data,
          saved_routes, file, out, signed_up, appended>>

dbVars == <<table_exists, users, signed_up>>
sessionVars == <<logged_in, username>>
journalVars == <<pc, saved_data, saved_routes, file, appended>>

\* ------------------------------------------------------- credential store

\* hashlib.sha256(password.encode()).hexdigest(): a fixed function of the
\* password onto a finite set of digests, hence not injective.  The model
\* keeps both facts: passwords 1 and 2 share digest 1, password 3 has digest 2.
hash_password(password) == (password + 1) \div 2

\* Mutant of UniqueViolation: the username column carries no UNIQUE constraint.
NoUniqueConstraint(rows, u) == FALSE

\* username VARCHAR(50) UNIQUE: the INSERT is rejected when a row with the
\* same username exists.
UniqueViolation(rows, u) == \E r \in rows : r.username = u

\* id INT AUTO_INCREMENT PRIMARY KEY
NextId(rows) ==
    IF rows = {} THEN 1
    ELSE 1 + CHOOSE m \in {r.id : r \in rows} : \A r \in rows : r.id <= m

\* signup_user: the INSERT raises on a driver error or a UNIQUE violation;
\* every exception is caught, reported with st.error, and False returned.
signup_user(rows, u, p, db) ==
    IF db = "error" \/ UniqueViolation(rows, u)
    THEN [ret |-> FALSE, rows |-> rows, errors |-> {"Signup failed: e"},
          exc |-> TRUE]
    ELSE [ret |-> TRUE, exc |-> FALSE,
          rows |-> rows \cup {[id |-> NextId(rows), username |-> u,
                               password |-> hash_password(p)]},
          errors |-> {}]

\* Mutant of login_user: the SELECT compares the username only.
login_user_any_password(rows, u, p, db) ==
    IF db = "error"
    THEN [ret |-> FALSE, errors |-> {"Login failed: e"}]
    ELSE [ret |-> \E r \in rows : r.username = u, errors |-> {}]

\* login_user: SELECT ... WHERE username = :username AND password = :password
\* with the digest of the supplied password; fetchone() is not None.
login_user(rows, u, p, db) ==
    IF db = "error"
    THEN [ret |-> FALSE, errors |-> {"Login failed: e"}]
    ELSE [ret |-> \E r \in rows :
                      r.username = u /\ r.password = hash_password(p),
          errors |-> {}]

\* ------------------------------------------------------------ HTTP clients

\* Python floats that the code derives by division are kept as exact
\* fractions <<numerator, denominator>> in lowest terms (n >= 0, d > 0), so
\* that two of them are equal exactly when they are the same pair.
RECURSIVE Gcd(_, _)
Gcd(a, b) == IF b = 0 THEN a ELSE Gcd(b, a % b)
Rat(n, d) == LET g == Gcd(n, d) IN <<n \div g, d \div g>>
RatDivInt(a, k) == Rat(a[1], a[2] * k)
RatMul(a, b) == Rat(a[1] * b[1], a[2] * b[2])

\* Python truthiness of a value that is None, or a number (a fraction or an
\* integer held in Some): None and zero are false.
Truthy(v) == v # None /\ v[1] # 0

\* What api.waqi.info may answer.  net: whether requests.get(...).json()
\* returned; status, data: the fields of the JSON object ("<missing>": the key
\* is absent; data is a dict on success and a message string on an error);
\* aqi, name: data["aqi"] and data["city"]["name"].
Missing == "<missing>"
AqiValues == {"42", "-", "N/A"}
AqFail ==
    [net |-> "fail", status |-> Missing, data |-> Missing, aqi |-> Missing,
     name |-> Missing]
AnApiError ==
    [net |-> "ok", status |-> "error", data |-> "str", aqi |-> Missing,
     name |-> Missing]
AqResponses ==
    {AqFail}
    \cup [net : {"ok"}, status : {"ok", "error", Missing}, data : {"dict"},
          aqi : AqiValues \cup {Missing}, name : {"Paris", Missing}]
    \cup [net : {"ok"}, status : {"ok", "error", Missing},
          data : {"str", Missing}, aqi : {Missing}, name : {Missing}]

\* Mutant of get_weather_details: a network failure returns None for the
\* index instead of the sentinel.
get_weather_details_none_on_failure(city, resp) ==
    IF city # "" /\ resp.net = "fail"
    THEN [ret |-> <<"None", "Error fetching data">>,
          errors |-> {"Error fetching data: e"}]
    ELSE IF city = ""
    THEN [ret |-> <<"N/A", "City not provided">>,
          errors |-> {"City not provided. Please enter a valid city."}]
    ELSE IF resp.status # "error" /\ resp.data = "dict"
    THEN [ret |-> <<IF resp.aqi = Missing THEN "N/A" ELSE resp.aqi,
                    IF resp.name = Missing THEN "Unknown" ELSE resp.name>>,
          errors |-> {}]
    ELSE [ret |-> <<"N/A", "City not found">>,
          errors |-> {"Error fetching weather data: error_message"}]

\* get_weather_details(city), with the upstream answer made explicit.
get_weather_details(city, resp) ==
    IF city # ""
    THEN IF resp.net = "fail"
         THEN [ret |-> <<"N/A", "Error fetching data">>,
               errors |-> {"Error fetching data: e"}]
         ELSE IF resp.status # "error" /\ resp.data = "dict"
         THEN [ret |-> <<IF resp.aqi = Missing THEN "N/A" ELSE resp.aqi,
                         IF resp.name = Missing THEN "Unknown" ELSE resp.name>>,
               errors |-> {}]
         ELSE [ret |-> <<"N/A", "City not found">>,
               errors |-> {"Error fetching weather data: error_message"}]
    ELSE [ret |-> <<"N/A", "City not provided">>,
          errors |-> {"City not provided. Please enter a valid city."}]

\* What the TomTom geocoder may answer: no answer, or a JSON object with or
\* without a "results" list of positions.
Positions == {[lat |-> 48, lon |-> 2], [lat |-> 51, lon |-> 0]}
GeoFail == [net |-> "fail", has_results |-> FALSE, results |-> <<>>]
GeoResponses ==
    {GeoFail}
    \cup {[net |-> "ok", has_results |-> FALSE, results |-> <<>>],
          [net |-> "ok", has_results |-> TRUE, results |-> <<>>]}
    \cup {[net |-> "ok", has_results |-> TRUE, results |-> <<pos>>] :
              pos \in Positions}

\* geocode_location(location): requests.get is not inside a try, so a
\* transport failure leaves the function as an exception.
geocode_location(location, resp) ==
    IF resp.net = "fail"
    THEN [raised |-> "RequestException", ret |-> None, errors |-> {}]
    ELSE IF resp.has_results /\ resp.results # <<>>
    THEN [raised |-> "none",
          ret |-> <<Some(resp.results[1].lat), Some(resp.results[1].lon)>>,
          errors |-> {}]
    ELSE [raised |-> "none", ret |-> <<None, None>>,
          errors |-> {"Unable to geocode location"}]

\* What the TomTom router may answer: no answer, or a JSON object with or
\* without a "routes" list.
VehicleTypes == {"Gasoline", "Diesel", "Electric"}
FuelEfficiencies == 1..30
Geometry == <<[latitude |-> 48, longitude |-> 2], [latitude |-> 51, longitude |-> 0]>>
RouteOf(secs, meters) ==
    [travelTimeInSeconds |-> secs, lengthInMeters |-> meters, points |-> Geometry]
RouteFail == [net |-> "fail", has_routes |-> FALSE, routes |-> <<>>]
RouteResponsesOf(Secs, Meters) ==
    {RouteFail}
    \cup {[net |-> "ok", has_routes |-> FALSE, routes |-> <<>>],
          [net |-> "ok", has_routes |-> TRUE, routes |-> <<>>]}
    \cup {[net |-> "ok", has_routes |-> TRUE, routes |-> <<RouteOf(t, m)>>] :
              t \in Secs, m \in Meters}

\* Mutant of emission_factor: the gasoline and diesel factors are swapped.
emission_factor_swapped(vehicle_type) ==
    IF vehicle_type = "Gasoline" THEN Rat(268, 100)
    ELSE IF vehicle_type = "Diesel" THEN Rat(231, 100)
    ELSE Rat(0, 1)

\* The emission factor of a vehicle type, in kg CO2 per litre.
emission_factor(vehicle_type) ==
    IF vehicle_type = "Gasoline" THEN Rat(231, 100)
    ELSE IF vehicle_type = "Diesel" THEN Rat(268, 100)
    ELSE Rat(0, 1)

\* emissions = (route_distance / fuel_efficiency) * emission_factor
estimate_emissions(route_distance, vehicle_type, fuel_efficiency) ==
    RatMul(RatDivInt(route_distance, fuel_efficiency),
           emission_factor(vehicle_type))

\* get_route_details(...): requests.get is not inside a try; the test is
\* `"routes" in route_response`, then routes[0] is taken.
get_route_details(vehicle_type, fuel_efficiency, resp) ==
    IF resp.net = "fail"
    THEN [raised |-> "RequestException", ret |-> None, errors |-> {}]
    ELSE IF resp.has_routes
    THEN IF resp.routes = <<>>
         THEN [raised |-> "IndexError", ret |-> None, errors |-> {}]
         ELSE LET route == resp.routes[1]
                  travel_time == Rat(route.travelTimeInSeconds, 60)
                  route_distance == Rat(route.lengthInMeters, 1000)
              IN  [raised |-> "none",
                   ret |-> <<Some(travel_time), Some(route_distance),
                             Some(estimate_emissions(route_distance,
                                      vehicle_type, fuel_efficiency)),
                             Some(route.points)>>,
                   errors |-> {}]
    ELSE [raised |-> "none", ret |-> <<None, None, None, None>>,
          errors |-> {"Unable to calculate route. Check your locations!"}]

\* ------------------------------------------------------------ script runs

\* main(): the login/signup page unless the session's flag is set.
ShowsApp(s) == logged_in[s]

\* The record of one script run: who ran what with which inputs, which
\* database call raised (if any), what the called operation returned (None
\* when it was not called or did not return), the exception that left main()
\* uncaught, the st.error messages shown, and the users rows at the start.
Run(s, op, args, db, ret, raised, errors) ==
    [session |-> s, op |-> op, args |-> args, db |-> db, ret |-> ret,
     raised |-> raised, errors |-> errors, rows0 |-> users]

\* app() starts with create_user_table(), which has no try/except: a driver
\* error there propagates out of app() and main() and ends the script run.
CreateFails(s, op, args) ==
    /\ out' = Run(s, op, args, "create", None, "OperationalError", {})
    /\ UNCHANGED <<dbVars, sessionVars, journalVars>>

\* A run of the login page with no button pressed.
RenderLogin(s, dbc) ==
    /\ ~ShowsApp(s)
    /\ IF dbc = "error"
       THEN CreateFails(s, "RenderLogin", <<>>)
       ELSE /\ table_exists' = TRUE
            /\ out' = Run(s, "RenderLogin", <<>>, "none", None, "none", {})
            /\ UNCHANGED <<users, signed_up, sessionVars, journalVars>>

\* Mutant of LoginGranted: the session is marked whatever login_user returns.
LoginGrantedAlways(r) == TRUE

\* app(): `if login_user(...)` decides whether the session is marked.
LoginGranted(r) == r.ret

\* A run of the login page with the Login button pressed.
LoginClick(s, u, p, dbc, dbq) ==
    /\ ~ShowsApp(s)
    /\ IF dbc = "error"
       THEN CreateFails(s, "Login", <<u, p>>)
       ELSE LET r == login_user(users, u, p, dbq) IN
            /\ table_exists' = TRUE
            /\ IF LoginGranted(r)
               THEN /\ logged_in' = [logged_in EXCEPT ![s] = TRUE]
                    /\ username' = [username EXCEPT ![s] = Some(u)]
                    /\ out' = Run(s, "Login", <<u, p>>, "none", Some(r.ret),
                                  "none", r.errors)
               ELSE /\ UNCHANGED sessionVars
                    /\ out' = Run(s, "Login", <<u, p>>,
                                  IF dbq = "error" THEN "login" ELSE "none",
                                  Some(r.ret), "none",
                                  r.errors \cup {"Invalid username or password!"})
            /\ UNCHANGED <<users, signed_up, journalVars>>

\* A run of the login page with the Signup button pressed.
SignupClick(s, u, p, dbc, dbq) ==
    /\ ~ShowsApp(s)
    /\ IF dbc = "error"
       THEN CreateFails(s, "Signup", <<u, p>>)
       ELSE LET r == signup_user(users, u, p, dbq) IN
            /\ table_exists' = TRUE
            /\ users' = r.rows
            /\ signed_up' = IF r.ret THEN signed_up \cup {<<u, p>>} ELSE signed_up
            /\ out' = Run(s, "Signup", <<u, p>>,
                          IF r.exc THEN "signup" ELSE "none",
                          Some(r.ret), "none",
                          IF r.ret THEN {}
                          ELSE r.errors \cup {"Signup failed. Try again."})
            /\ UNCHANGED <<sessionVars, journalVars>>

\* ------------------------------------------------------ route journal file

\* json.dump / json.load of the list of saved routes: each dict becomes a
\* JSON object, written here as the tuple of its values in key order, and is
\* rebuilt from it.
json_dump(routes) ==
    [i \in 1..Len(routes) |->
        <<routes[i].weather_city, routes[i].start_location,
          routes[i].end_location, routes[i].travel_time,
          routes[i].route_distance, routes[i].emissions,
          routes[i].route_map>>]

json_load(text) ==
    [i \in 1..Len(text) |->
        [weather_city |-> text[i][1], start_location |-> text[i][2],
         end_location |-> text[i][3], travel_time |-> text[i][4],
         route_distance |-> text[i][5], emissions |-> text[i][6],
         route_map |-> text[i][7]]]

\* Mutant of append_route: the new summary is put in front.
prepend_route(routes, data) == <<data>> \o routes

\* saved_routes.append(saved_data)
append_route(routes, data) == Append(routes, data)

\* folium.Map(location=[mid lat, mid lon]) with the route's PolyLine, as
\* route_map._repr_html_() renders it.
route_map_html(start_lat, start_lon, end_lat, end_lon, geometry) ==
    <<Rat(start_lat + end_lat, 2), Rat(start_lon + end_lon, 2),
      [i \in 1..Len(geometry) |-> <<geometry[i].latitude, geometry[i].longitude>>]>>

\* ------------------------------------------------- the traffic/weather page

\* What one run of the "Traffic & Weather" page computes from its widgets and
\* from the upstream answers, up to the Save Route button: the weather pair
\* (None when no city was entered), the exception that ended the run, the
\* messages shown, whether the route was displayed, and the summary to save.
traffic_and_weather(weather_city, aq, start_location, end_location, g1, g2, vehicle_type, fuel_efficiency, rr) ==
    LET w == get_weather_details(weather_city, aq)
        asked == weather_city # ""
        located == start_location # "" /\ end_location # ""
        ga == geocode_location(start_location, g1)
        gb == geocode_location(end_location, g2)
        r == get_route_details(vehicle_type, fuel_efficiency, rr)
        geocoded == /\ located /\ ga.raised = "none" /\ gb.raised = "none"
        routed == /\ geocoded /\ Truthy(ga.ret[1]) /\ Truthy(gb.ret[1])
        returned == routed /\ r.raised = "none"
        displayed == /\ returned
                     /\ r.ret[1] # None /\ r.ret[1][1] # <<0, 1>>
                     /\ r.ret[2] # None /\ r.ret[2][1] # <<0, 1>>
    IN  [weather |-> IF asked THEN Some(w.ret) ELSE None,
         netfail |-> {c \in {"weather"} : asked /\ aq.net = "fail"}
                     \cup {c \in {"geocode"} :
                              located /\ (g1.net = "fail"
                                  \/ (ga.raised = "none" /\ g2.net = "fail"))}
                     \cup {c \in {"route"} : routed /\ rr.net = "fail"},
         raised |-> IF ~located THEN "none"
                    ELSE IF ga.raised # "none" THEN ga.raised
                    ELSE IF gb.raised # "none" THEN gb.raised
                    ELSE IF routed THEN r.raised ELSE "none",
         errors |-> (IF asked THEN w.errors ELSE {})
                    \cup (IF located THEN ga.errors ELSE {})
                    \cup (IF located /\ ga.raised = "none" THEN gb.errors ELSE {})
                    \cup (IF routed THEN r.errors ELSE {}),
         displayed |-> displayed,
         data |-> IF displayed
                  THEN Some([weather_city |-> weather_city,
                             start_location |-> start_location,
                             end_location |-> end_location,
                             travel_time |-> r.ret[1][1],
                             route_distance |-> r.ret[2][1],
                             emissions |-> r.ret[3][1],
                             route_map |-> route_map_html(ga.ret[1][1],
                                 ga.ret[2][1], gb.ret[1][1], gb.ret[2][1],
                                 r.ret[4][1])])
                  ELSE None]

\* The saves that have completed or are under way.
SavesStarted == Len(appended) + Cardinality({t \in Sessions : pc[t] # "idle"})

\* A run of the "Traffic & Weather" page; with the Save Route button pressed
\* and the route displayed, the run goes on into the save handler.
TrafficWeather(s, weather_city, aq, start_location, end_location, g1, g2, vehicle_type, fuel_efficiency, rr, save) ==
    LET t == traffic_and_weather(weather_city, aq, start_location,
                 end_location, g1, g2, vehicle_type, fuel_efficiency, rr)
        saving == save /\ t.displayed
    IN  /\ ShowsApp(s)
        /\ pc[s] = "idle"
        /\ saving => SavesStarted < MaxRoutes
        /\ out' = Run(s, "TrafficWeather",
                      <<weather_city, start_location, end_location,
                        vehicle_type, fuel_efficiency>>, "none",
                      [weather |-> t.weather, netfail |-> t.netfail,
                       displayed |-> t.displayed, saving |-> saving],
                      t.raised, t.errors)
        /\ pc' = [pc EXCEPT ![s] = IF saving THEN "read" ELSE "idle"]
        /\ saved_data' = [saved_data EXCEPT ![s] =
                              IF saving THEN t.data ELSE None]
        /\ UNCHANGED <<dbVars, sessionVars, saved_routes, file, appended>>

\* Save Route, first step: open("saved_routes.json", "r") and json.load.  A
\* missing file leaves saved_routes = []; a file that is not a complete JSON
\* text makes json.load raise, which nothing catches.
SaveRead(s) ==
    /\ pc[s] = "read"
    /\ IF file.exists /\ ~file.complete
       THEN /\ pc' = [pc EXCEPT ![s] = "idle"]
            /\ out' = Run(s, "SaveRoute", <<saved_data[s][1]>>, "none", None,
                          "JSONDecodeError", {})
            /\ saved_data' = [saved_data EXCEPT ![s] = None]
            /\ UNCHANGED <<saved_routes>>
       ELSE /\ pc' = [pc EXCEPT ![s] = "open"]
            /\ saved_routes' = [saved_routes EXCEPT ![s] =
                                   IF file.exists THEN json_load(file.text)
                                   ELSE <<>>]
            /\ UNCHANGED <<out, saved_data>>
    /\ UNCHANGED <<dbVars, sessionVars, file, appended>>

\* Save Route, second step: saved_routes.append(saved_data), then
\* open("saved_routes.json", "w"), which creates or truncates the file.
SaveOpen(s) ==
    /\ pc[s] = "open"
    /\ saved_routes' = [saved_routes EXCEPT ![s] =
                           append_route(saved_routes[s], saved_data[s][1])]
    /\ file' = [exists |-> TRUE, complete |-> FALSE, text |-> <<>>]
    /\ pc' = [pc EXCEPT ![s] = "dump"]
    /\ UNCHANGED <<dbVars, sessionVars, saved_data, out, appended>>

\* Mutant of file_after_dump: the file is written in append mode, so what
\* another writer wrote in between stays in front of this writer's text.
file_after_dump_appending(current, text) ==
    IF current.complete
    THEN {[exists |-> TRUE, complete |-> TRUE, text |-> current.text \o text]}
    ELSE {[exists |-> TRUE, complete |-> TRUE, text |-> text]}

\* What the file holds once this writer has written its text from offset 0
\* and closed.  If nobody else wrote since this writer truncated the file, it
\* holds the text.  If another writer did, the bytes of that writer that lie
\* beyond the end of this text stay in the file: the file holds this text when
\* it is at least as long in bytes, and is no JSON text otherwise.
file_after_dump(current, text) ==
    IF current.complete
    THEN {[exists |-> TRUE, complete |-> TRUE, text |-> text],
          [exists |-> TRUE, complete |-> FALSE, text |-> <<>>]}
    ELSE {[exists |-> TRUE, complete |-> TRUE, text |-> text]}

\* Save Route, last step: json.dump(saved_routes, f), close, st.success.
SaveDump(s) ==
    /\ pc[s] = "dump"
    /\ file' \in file_after_dump(file, json_dump(saved_routes[s]))
    /\ appended' = Append(appended, saved_data[s][1])
    /\ out' = Run(s, "SaveRoute", <<saved_data[s][1]>>, "none", Some(TRUE),
                  "none", {})
    /\ pc' = [pc EXCEPT ![s] = "idle"]
    /\ saved_data' = [saved_data EXCEPT ![s] = None]
    /\ saved_routes' = [saved_routes EXCEPT ![s] = <<>>]
    /\ UNCHANGED <<dbVars, sessionVars>>

\* A run of the "Saved Routes" page: the whole list is loaded and written
\* out; a missing file shows "No saved routes found."
SavedRoutes(s) ==
    /\ ShowsApp(s)
    /\ pc[s] = "idle"
    /\ out' = IF ~file.exists
              THEN Run(s, "SavedRoutes", <<>>, "none", Some(<<>>), "none", {})
              ELSE IF file.complete
              THEN Run(s, "SavedRoutes", <<>>, "none",
                       Some(json_load(file.text)), "none", {})
              ELSE Run(s, "SavedRoutes", <<>>, "none", None,
                       "JSONDecodeError", {})
    /\ UNCHANGED <<dbVars, sessionVars, journalVars>>

\* A run of the "Dashboard" page: the row of the session's username is
\* fetched inside a try; a driver error is shown with st.error.
Dashboard(s, db) ==
    /\ ShowsApp(s)
    /\ pc[s] = "idle"
    /\ out' = IF db = "error"
              THEN Run(s, "Dashboard", <<>>, "dashboard", None, "none",
                       {"Error loading user details: e"})
              ELSE Run(s, "Dashboard", <<>>, "none",
                       Some(UniqueViolation(users, username[s][1])), "none", {})
    /\ UNCHANGED <<dbVars, sessionVars, journalVars>>

\* ------------------------------------------- the clients called directly

\* One call of each client function on its own, outside any session, as a
\* test of the function makes it.
CallGetWeatherDetails(city, resp) ==
    LET r == get_weather_details(city, resp) IN
    /\ out' = Run(0, "get_weather_details", <<city, resp>>, "none",
                  r.ret, "none", r.errors)
    /\ UNCHANGED <<dbVars, sessionVars, journalVars>>

CallGeocodeLocation(location, resp) ==
    LET r == geocode_location(location, resp) IN
    /\ out' = Run(0, "geocode_location", <<location, resp>>, "none",
                  r.ret, r.raised, r.errors)
    /\ UNCHANGED <<dbVars, sessionVars, journalVars>>

CallGetRouteDetails(vehicle_type, fuel_efficiency, resp) ==
    LET r == get_route_details(vehicle_type, fuel_efficiency, resp) IN
    /\ out' = Run(0, "get_route_details",
                  <<vehicle_type, fuel_efficiency, resp>>, "none",
                  r.ret, r.raised, r.errors)
    /\ UNCHANGED <<dbVars, sessionVars, journalVars>>

\* ------------------------------------------------------------------ specs

Init ==
    /\ table_exists = FALSE
    /\ users = {}
    /\ logged_in = [s \in Sessions |-> FALSE]
    /\ username = [s \in Sessions |-> None]
    /\ pc = [s \in Sessions |-> "idle"]
    /\ saved_data = [s \in Sessions |-> None]
    /\ saved_routes = [s \in Sessions |-> <<>>]
    /\ file = [exists |-> FALSE, complete |-> FALSE, text |-> <<>>]
    /\ out = Run(0, "none", <<>>, "none", None, "none", {})
    /\ signed_up = {}
    /\ appended = <<>>

\* The login page and the application pages of session s, with the inputs
\* and upstream answers drawn from the given sets.
LoginPage(s, Us, Ps, Dbs) ==
    \/ \E dbc \in Dbs : RenderLogin(s, dbc)
    \/ \E u \in Us, p \in Ps, dbc \in Dbs, dbq \in Dbs :
           LoginClick(s, u, p, dbc, dbq)
    \/ \E u \in Us, p \in Ps, dbc \in Dbs, dbq \in Dbs :
           SignupClick(s, u, p, dbc, dbq)

AppPages(s, Cs, Aqs, As, Bs, Gs, Rs, Dbs) ==
    \/ \E c \in Cs, aq \in Aqs, a \in As, b \in Bs, g1 \in Gs, g2 \in Gs,
          rr \in Rs, save \in BOOLEAN :
           TrafficWeather(s, c, aq, a, b, g1, g2, "Gasoline", 15, rr, save)
    \/ SaveRead(s)
    \/ SaveOpen(s)
    \/ SaveDump(s)
    \/ SavedRoutes(s)
    \/ \E db \in Dbs : Dashboard(s, db)

AqOk ==
    [net |-> "ok", status |-> "ok", data |-> "dict", aqi |-> "42",
     name |-> "Paris"]
GeoOk == [net |-> "ok", has_results |-> TRUE,
          results |-> <<[lat |-> 48, lon |-> 2]>>]
GeoNone == [net |-> "ok", has_results |-> TRUE, results |-> <<>>]
RouteOk == [net |-> "ok", has_routes |-> TRUE, routes |-> <<RouteOf(90, 1500)>>]
RouteNone == [net |-> "ok", has_routes |-> FALSE, routes |-> <<>>]

\* The login page of one session against the credential store, with driver
\* errors.
NextAuth == LoginPage(1, Usernames, Passwords, DbOutcomes)

SpecAuth == Init /\ [][NextAuth]_vars

\* One session on the journal, every upstream call answered.
NextJournal1 ==
    \/ LoginPage(1, {1}, {1}, {"ok"})
    \/ AppPages(1, {"", "Paris"}, {AqOk}, {"", "Paris", "London"}, {"Rome"},
                {GeoOk}, {RouteOk}, {"ok"})

SpecJournal1 == Init /\ [][NextJournal1]_vars

\* One session, with upstream errors and transport failures.
NextClients ==
    \/ LoginPage(1, {1}, {1}, {"ok"})
    \/ AppPages(1, {"", "Paris"}, {AqOk, AnApiError, AqFail},
                {"", "Paris"}, {"Rome"}, {GeoOk, GeoNone, GeoFail},
                {RouteOk, RouteNone, RouteFail}, {"ok", "error"})

SpecClients == Init /\ [][NextClients]_vars

\* Several sessions sharing the database and the journal, with driver errors.
Next ==
    \E s \in Sessions :
        \/ LoginPage(s, {1}, {1, 3}, DbOutcomes)
        \/ AppPages(s, {"Paris"}, {AqOk}, {"Paris", "London"}, {"Rome"},
                    {GeoOk}, {RouteOk}, DbOutcomes)

Spec == Init /\ [][Next]_vars

\* Each client function called on its own.
Cities == {"", "Paris"}
Locations == {"Paris", "London"}
TravelSeconds == {0, 90, 600}
LengthsInMeters == {0, 1500, 12000}

NextFunctions ==
    \/ \E city \in Cities, resp \in AqResponses :
           CallGetWeatherDetails(city, resp)
    \/ \E location \in Locations, resp \in GeoResponses :
           CallGeocodeLocation(location, resp)
    \/ \E vt \in VehicleTypes, fe \in FuelEfficiencies,
          resp \in RouteResponsesOf(TravelSeconds, LengthsInMeters) :
           CallGetRouteDetails(vt, fe, resp)

SpecFunctions == Init /\ [][NextFunctions]_vars

\* ----------------------------------------------------------------- claims

\* The SELECT of login_user finds a row for (u, digest of x).
RowMatch(rows, u, x) ==
    \E r \in rows : r.username = u /\ r.password = hash_password(x)

\* The latest run called login_user / signup_user and it returned.
LoginReturned == out.op = "Login" /\ out.ret # None
SignupReturned == out.op = "Signup" /\ out.ret # None

\* C1 (as stated): login(u, x) returns true exactly when the users table
\* holds a row with username u and digest hash(x); in particular, once
\* signup(u, p) has succeeded, login(u, x) returns true exactly when x has
\* the digest of p.
C1_LoginIffRowMatch ==
    LoginReturned =>
        /\ out.ret = Some(RowMatch(users, out.args[1], out.args[2]))
        /\ \A pair \in signed_up :
               pair[1] = out.args[1] =>
                   out.ret = Some(hash_password(out.args[2])
                                  = hash_password(pair[2]))

\* C1 (amended): the same, for a login whose query completed; a login whose
\* query raised returns false whatever the table holds.
C1_LoginIffRowMatchUnlessDbError ==
    LoginReturned =>
        IF out.db = "login"
        THEN out.ret = Some(FALSE)
        ELSE /\ out.ret = Some(RowMatch(users, out.args[1], out.args[2]))
             /\ \A pair \in signed_up :
                    pair[1] = out.args[1] =>
                        out.ret = Some(hash_password(out.args[2])
                                       = hash_password(pair[2]))

\* C1 witness: a login of a signed-up user has returned true.
C1_Witness ==
    /\ LoginReturned /\ out.ret = Some(TRUE)
    /\ \E pair \in signed_up : pair[1] = out.args[1]

\* A duplicate signup has just returned: the username of the latest signup
\* was already in the table when the run started.
DuplicateSignup ==
    SignupReturned /\ \E r \in out.rows0 : r.username = out.args[1]

\* No two rows share a username.
UsernamesUnique ==
    \A r1, r2 \in users : r1.username = r2.username => r1 = r2

\* Each username has at most one successful registrant, whose digest is the
\* one stored for it.
FirstRegistrantKept ==
    /\ \A a, b \in signed_up : a[1] = b[1] => a = b
    /\ \A a \in signed_up :
           \E r \in users : r.username = a[1] /\ r.password = hash_password(a[2])

\* C2 (as stated): a signup with an existing username returns failure and
\* leaves the table as it was, no two rows share a username, the first
\* registrant's password still matches and the second one's does not.
C2_DuplicateSignupSecondRejected ==
    /\ UsernamesUnique
    /\ FirstRegistrantKept
    /\ DuplicateSignup =>
           /\ out.ret = Some(FALSE)
           /\ users = out.rows0
           /\ ~RowMatch(users, out.args[1], out.args[2])

\* C2 (amended): as stated, except that the second registrant's password
\* matches exactly when its digest is the stored one (the same password
\* submitted twice, say).
C2_DuplicateSignupLeavesTable ==
    /\ UsernamesUnique
    /\ FirstRegistrantKept
    /\ DuplicateSignup =>
           /\ out.ret = Some(FALSE)
           /\ users = out.rows0
           /\ \A a \in signed_up :
                  a[1] = out.args[1] =>
                      (RowMatch(users, out.args[1], out.args[2])
                           <=> hash_password(out.args[2]) = hash_password(a[2]))

\* C2 witness: a duplicate signup with a password of another digest than the
\* first registrant's has been rejected.
C2_Witness ==
    /\ DuplicateSignup /\ out.db = "signup" /\ out.ret = Some(FALSE)
    /\ \E a \in signed_up :
           /\ a[1] = out.args[1]
           /\ hash_password(a[2]) # hash_password(out.args[2])

\* C5: a database error raised during createSchema, signup or login is
\* caught, shown as a message and turned into a failed operation; it never
\* leaves the operation as an uncaught exception.
C5_DbErrorsCaught ==
    out.db \in {"create", "signup", "login"} =>
        /\ out.raised = "none"
        /\ out.errors # {}
        /\ out.ret = Some(FALSE)

\* The latest run was a call of get_weather_details; its city and upstream
\* answer; whether the answer counts as a successful lookup.
WeatherCalled == out.op = "get_weather_details"
WeatherSuccess ==
    /\ out.args[1] # ""
    /\ out.args[2].net = "ok"
    /\ out.args[2].status # "error"
    /\ out.args[2].data = "dict"

C8_NoRouteIsAbsentResult ==
    (/\ out.op = "get_route_details"
     /\ out.args[3].net = "ok")
    => IF out.args[3].has_routes /\ out.args[3].routes # <<>>
       THEN out.raised = "none" /\ None \notin {out.ret[i] : i \in 1..4}
       ELSE /\ out.raised = "none"
            /\ out.ret = <<None, None, None, None>>
            /\ out.errors # {}

\* The emission factor of the specification, in hundredths.
FactorHundredths(vehicle_type) ==
    CASE vehicle_type = "Gasoline" -> 231
      [] vehicle_type = "Diesel" -> 268
      [] vehicle_type = "Electric" -> 0

\* A call of get_route_details that returned a route.
RouteReturned ==
    /\ out.op = "get_route_details"
    /\ out.raised = "none"
    /\ out.ret[1] # None

\* C9: the emissions of a returned route equal (distance / efficiency) *
\* factor, with distance = lengthInMeters / 1000 and factor 2.31, 2.68 or 0,
\* that is the fraction (lengthInMeters * 100 * factor) / (100000 *
\* efficiency); they are 0 for electric and 0 for distance 0.
C9_EmissionsFormula ==
    RouteReturned =>
        LET emissions == out.ret[3][1]
            meters == out.args[3].routes[1].lengthInMeters
        IN  /\ emissions = Rat(meters * FactorHundredths(out.args[1]),
                               100000 * out.args[2])
            /\ out.args[1] = "Electric" => emissions = <<0, 1>>
            /\ meters = 0 => emissions = <<0, 1>>

\* C9 witness: a diesel route of 12 km at 30 km/l has returned 1.072 kg.
C9_Witness ==
    /\ RouteReturned
    /\ out.args[1] = "Diesel" /\ out.args[2] = 30
    /\ out.args[3].routes[1].lengthInMeters = 12000
    /\ out.ret[3][1] = Rat(1072, 1000)

\* The journal as json.load reads it, when the file is a complete JSON text.
JournalReadable == file.exists /\ file.complete
Journal == json_load(file.text)

IsPrefix(a, b) == Len(a) <= Len(b) /\ SubSeq(b, 1, Len(a)) = a

\* C3: with one session, the journal always holds exactly the summaries
\* appended so far, in append order (none before the first append, when the
\* file does not exist; one after the first); a listing returns them, the
\* empty sequence when there is no file, and never fails; a rewrite keeps
\* every earlier summary where it was.
C3_ListingIsAppendOrder ==
    /\ [](/\ ~file.exists => appended = <<>>
          /\ JournalReadable => Journal = appended
          /\ pc[1] = "idle" /\ appended # <<>> => JournalReadable
          /\ out.op = "SavedRoutes" =>
                 out.raised = "none" /\ out.ret = Some(appended))
    /\ [][JournalReadable /\ JournalReadable'
              => IsPrefix(Journal, json_load(file'.text))]_vars

\* C3 witness: a listing has returned two different summaries, the first
\* saved first.
C3_Witness ==
    /\ out.op = "SavedRoutes"
    /\ Len(appended) = 2 /\ appended[1] # appended[2]
    /\ out.ret = Some(appended)
    /\ Journal = appended

\* C4: a save rewrites the whole file with what it read before plus its own
\* summary, whatever was written in between: after a completed rewrite the
\* journal is the writer's own list, its last entry is the summary of the
\* latest save reported successful, and it never holds more entries than
\* saves were reported successful.  (That it can hold fewer is the witness.)
C4_RewriteIsWritersOwnList ==
    /\ [](JournalReadable /\ appended # <<>> =>
              /\ Len(Journal) <= Len(appended)
              /\ Journal[Len(Journal)] = appended[Len(appended)])
    /\ [][\A s \in Sessions :
              pc[s] = "dump" /\ pc'[s] = "idle" /\ file'.complete
                  => /\ json_load(file'.text) = saved_routes[s]
                     /\ out'.op = "SaveRoute" /\ out'.ret = Some(TRUE)]_vars

\* C4 witness, the lost update: two saves of different summaries have both
\* been reported successful, no save is under way, and the journal holds
\* only the second summary.
C4_LostUpdate ==
    /\ \A s \in Sessions : pc[s] = "idle"
    /\ Len(appended) = 2 /\ appended[1] # appended[2]
    /\ out.op = "SaveRoute" /\ out.ret = Some(TRUE)
    /\ JournalReadable
    /\ Journal = <<appended[2]>>

\* C7: a transport failure of the air-quality lookup, of a geocode call or of
\* the route call is caught: an error is shown, the run ends without an
\* uncaught exception and without entering the save.
C7_TransportFailuresCaught ==
    (out.op = "TrafficWeather" /\ out.ret.netfail # {}) =>
        /\ out.raised = "none"
        /\ out.errors # {}
        /\ ~out.ret.saving

AppOps == {"TrafficWeather", "SaveRoute", "SavedRoutes", "Dashboard"}

\* C10: a session's flag becomes true only in a run whose login call returned
\* true, and the session username is then the username of that call; the
\* application pages and the save run only in sessions whose flag is set; a
\* failed login and every signup leave flag and username as they were; a set
\* flag is never reset.
C10_FlagOnlyByLogin ==
    /\ [](/\ out.op \in AppOps => logged_in[out.session]
          /\ \A s \in Sessions :
                 /\ pc[s] # "idle" => logged_in[s]
                 /\ logged_in[s] <=> username[s] # None)
    /\ [][\A s \in Sessions :
              /\ ~logged_in[s] /\ logged_in'[s] =>
                     /\ out'.op = "Login" /\ out'.session = s
                     /\ out'.ret = Some(TRUE)
                     /\ username'[s] = Some(out'.args[1])
              /\ logged_in[s] =>
                     logged_in'[s] /\ username'[s] = username[s]]_vars
    /\ [][(\/ out'.op = "Signup"
           \/ out'.op = "Login" /\ out'.ret # Some(TRUE))
              => UNCHANGED <<logged_in, username>>]_vars

\* C10 witness: one session has logged in and run the save, while the other
\* session's login has just failed and left it on the login page.
C10_Witness ==
    /\ out.op = "Login" /\ out.ret = Some(FALSE)
    /\ ~logged_in[out.session]
    /\ \E s \in Sessions : logged_in[s] /\ username[s] = Some(1)
    /\ appended # <<>>

====
